---- MODULE Spec2Model ----
(***************************************************************************)
(* Model of the cross-tree comparison of ghg-py-diff-tool:                 *)
(*   src/src/multi_directories_diff.py  (scan_project, decide_status,      *)
(*   make_unique, main) and the decide_status of multi_projects_diff.py.   *)
(* A run of main is a state machine: the root check, one step per file     *)
(* visited by scan_project, and the report (key union, row loop, CSV).     *)
(***************************************************************************)
EXTENDS Integers, Sequences, FiniteSets, TLC

\* ------------------------------------------------------------ bounds
MaxRoots == 3      \* declared roots in one run
MaxSize  == 5      \* declared roots plus files visited in one run
MaxData  == 3      \* distinct file contents in one run

\* short_name() results of the declared paths (two paths may share one)
RawNames == {"a", "a_2"}
\* what a declared path is on disk
Kinds == {"dir", "missing", "file"}
\* the *.py files a root may hold: directory part and basename
Paths == { [dir |-> "x", name |-> "foo.py"],
           [dir |-> "y", name |-> "foo.py"],
           [dir |-> "z", name |-> "foo.py"],
           [dir |-> "",  name |-> "bar.py"] }
\* the basenames, in ascending order of Python's str comparison
KeyOrder == <<"bar.py", "foo.py">>

\* ------------------------------------------------------------ values
\* Python's None and a present value, kept apart from every integer/string
None == <<>>
Some(v) == <<v>>

Range(s) == { s[i] : i \in DOMAIN s }

\* d[k] = v on a dict
Put(d, k, v) == [x \in (DOMAIN d) \cup {k} |-> IF x = k THEN v ELSE d[x]]
EmptyDict == [x \in {} |-> None]

\* sep.join(seq) on strings
RECURSIVE Join(_, _)
Join(seq, sep) ==
  IF seq = <<>> THEN ""
  ELSE IF Len(seq) = 1 THEN seq[1]
  ELSE seq[1] \o sep \o Join(Tail(seq), sep)

VARIABLES
  unique_paths,   \* the declared roots after de-duplication: [raw, kind]
  pc,             \* position of main
  project_paths,  \* indices (into unique_paths) of the roots that are kept
  missing,        \* roots warned about as non-existent
  not_dir,        \* roots warned about as not a directory
  names,          \* column names of the kept roots
  order,          \* name -> position, for group_summary
  index_list,     \* the finished per-root indices
  info,           \* the index scan_project is building
  visited,        \* files rglob has yielded in the current scan_project call, in order
  nfiles,         \* files visited so far in the run
  ndata,          \* distinct file contents met so far in the run
  failed_at,      \* None, or Some([root, file]) where sha256sum raised
  keys,           \* sorted(all_keys)
  rows,           \* the report rows built so far
  csv,            \* None, or Some(rows) once df.to_csv has written them
  fn_in,          \* the arguments of a status classification on its own
  fn_out          \* None, or Some(result) of that classification

run  == << unique_paths, pc, project_paths, missing, not_dir, names, order,
           index_list, info, visited, nfiles, ndata, failed_at, keys, rows, csv >>
fn   == << fn_in, fn_out >>
vars == << run, fn >>

\* ------------------------------------------------------------ utilities
\* str(p.relative_to(root))
RelOf(p) == IF p.dir = "" THEN p.name ELSE p.dir \o "/" \o p.name

\* sha256sum of a readable file: a digest that is equal iff the bytes are
sha256sum(f) == "sha" \o ToString(f.data)

\* sha[:12]
ShaPrefix(sha) == << "[:12]", sha >>

\* variants of the loop body: the latest file becomes the canonical one;
\* the first collision does not seed the list with the canonical path
ScanFileLatest(inf, f) ==
  IF f.name \notin DOMAIN inf
    THEN Put(inf, f.name, [rel |-> f.rel, sha |-> "sha" \o ToString(f.data), collisions |-> <<>>])
    ELSE LET e == inf[f.name]
             seeded == IF e.collisions = <<>> THEN <<e.rel>> ELSE e.collisions
         IN  [inf EXCEPT ![f.name].collisions = Append(seeded, f.rel),
                         ![f.name].rel = f.rel]
ScanFileNoSeed(inf, f) ==
  IF f.name \notin DOMAIN inf
    THEN Put(inf, f.name, [rel |-> f.rel, sha |-> "sha" \o ToString(f.data), collisions |-> <<>>])
    ELSE [inf EXCEPT ![f.name].collisions = Append(@, f.rel)]

\* one iteration of the loop of scan_project on file f = [rel, name, data]
ScanFile(inf, f) ==
  IF f.name \notin DOMAIN inf
    THEN Put(inf, f.name, [rel |-> f.rel, sha |-> sha256sum(f), collisions |-> <<>>])
    ELSE LET e == inf[f.name]
             seeded == IF e.collisions = <<>> THEN <<e.rel>> ELSE e.collisions
         IN  [inf EXCEPT ![f.name].collisions = Append(seeded, f.rel)]

\* a variant of decide_status that lists the roots lacking the key
decide_status_absent(flags, nms) ==
  IF ~(\E i \in DOMAIN flags : flags[i]) THEN "missing_all"
  ELSE IF \A i \in DOMAIN flags : flags[i] THEN "all_exist"
  ELSE LET n == IF Len(nms) < Len(flags) THEN Len(nms) ELSE Len(flags)
           idx == SelectSeq([i \in 1..n |-> i], LAMBDA i : ~flags[i])
       IN  Join([k \in 1..Len(idx) |-> nms[idx[k]]], "_")

\* decide_status of multi_directories_diff.py
decide_status(flags, nms) ==
  IF ~(\E i \in DOMAIN flags : flags[i]) THEN "missing_all"
  ELSE IF \A i \in DOMAIN flags : flags[i] THEN "all_exist"
  ELSE LET n == IF Len(nms) < Len(flags) THEN Len(nms) ELSE Len(flags)
           idx == SelectSeq([i \in 1..n |-> i], LAMBDA i : flags[i])
       IN  Join([k \in 1..Len(idx) |-> nms[idx[k]]], "_")

\* decide_status of multi_projects_diff.py: the labels are p1, p2, ...
decide_status_mp(flags) ==
  IF ~(\E i \in DOMAIN flags : flags[i]) THEN "missing_all"
  ELSE IF \A i \in DOMAIN flags : flags[i] THEN "all_exist"
  ELSE LET idx == SelectSeq([i \in 1..Len(flags) |-> i], LAMBDA i : flags[i])
       IN  Join([k \in 1..Len(idx) |-> "p" \o ToString(idx[k])], "_")

\* make_unique: the loop state is (seen, result)
RECURSIVE MakeUniqueFrom(_, _, _)
MakeUniqueFrom(rest, seen, result) ==
  IF rest = <<>> THEN result
  ELSE LET n == Head(rest)
       IN  IF n \notin DOMAIN seen
             THEN MakeUniqueFrom(Tail(rest), Put(seen, n, 1), Append(result, n))
             ELSE MakeUniqueFrom(Tail(rest), Put(seen, n, seen[n] + 1),
                                 Append(result, n \o "_" \o ToString(seen[n] + 1)))

make_unique(nms) == MakeUniqueFrom(nms, EmptyDict, <<>>)

\* {name: i for i, name in enumerate(names)}: a repeated name keeps the last i
OrderOf(nms) ==
  [n \in Range(nms) |-> CHOOSE i \in DOMAIN nms :
                          nms[i] = n /\ \A j \in DOMAIN nms : nms[j] = n => j <= i]

\* sorted(S) for a set of integers
RECURSIVE SortedInts(_)
SortedInts(S) ==
  IF S = {} THEN <<>>
  ELSE LET m == CHOOSE x \in S : \A y \in S : x <= y
       IN  <<m>> \o SortedInts(S \ {m})

\* sorted(seq, key=lambda x: ord[x]): stable, ascending in ord
RECURSIVE SortedByOrder(_, _)
SortedByOrder(seq, ord) ==
  IF seq = <<>> THEN <<>>
  ELSE LET x    == seq[Len(seq)]
           init == SortedByOrder(SubSeq(seq, 1, Len(seq) - 1), ord)
           le   == SelectSeq(init, LAMBDA y : ord[y] <= ord[x])
           gt   == SelectSeq(init, LAMBDA y : ord[y] > ord[x])
       IN  le \o <<x>> \o gt

\* sorted(all_keys) for a set of basenames
SortedKeys(S) == SelectSeq(KeyOrder, LAMBDA k : k \in S)

\* set().union(*[idx.keys() for idx in index_list])
UnionKeys(idxs) == UNION { DOMAIN idxs[i] : i \in DOMAIN idxs }

\* "if sha not in sha_to_gid", with a variant that opens a group per root
NewGroupAlways(sha_to_gid, sha) == TRUE
NewGroup(sha_to_gid, sha) == sha \notin DOMAIN sha_to_gid

\* "next_gid += 1", with a variant that leaves a gap
NextGidSkip(next_gid) == next_gid + 2
NextGid(next_gid) == next_gid + 1

\* the grouping loop of main for one key, from root i on.
\* st = [row, exists_flags, sha_to_gid, next_gid, group_assignments]
RECURSIVE GroupLoop(_, _, _, _, _)
GroupLoop(key, nms, idxs, i, st) ==
  IF i > Len(nms) THEN st
  ELSE
    LET name   == nms[i]
        exists == key \in DOMAIN idxs[i]
        d      == idxs[i][key]
        fresh  == exists /\ NewGroup(st.sha_to_gid, d.sha)
        s2g    == IF fresh THEN Put(st.sha_to_gid, d.sha, st.next_gid)
                           ELSE st.sha_to_gid
        ngid   == IF fresh THEN NextGid(st.next_gid) ELSE st.next_gid
        ga     == IF exists THEN [st.group_assignments EXCEPT ![i] = Some(s2g[d.sha])]
                            ELSE st.group_assignments
        r1     == Put(st.row, "path_" \o name,
                      IF exists THEN Some(d.rel) ELSE None)
        r2     == Put(r1, "sha_" \o name,
                      IF exists THEN Some(ShaPrefix(d.sha)) ELSE None)
        r3     == Put(r2, "collision_" \o name,
                      IF exists /\ d.collisions # <<>>
                        THEN Some(Join(d.collisions, ",")) ELSE None)
        r4     == Put(r3, "exists_" \o name, exists)
    IN  GroupLoop(key, nms, idxs, i + 1,
                  [row               |-> r4,
                   exists_flags      |-> Append(st.exists_flags, exists),
                   sha_to_gid        |-> s2g,
                   next_gid          |-> ngid,
                   group_assignments |-> ga])

\* the state of the grouping loop when it ends
Grouping(key, nms, idxs) ==
  GroupLoop(key, nms, idxs, 1,
            [row               |-> Put(EmptyDict, "filename", key),
             exists_flags      |-> <<>>,
             sha_to_gid        |-> EmptyDict,
             next_gid          |-> 1,
             group_assignments |-> [i \in 1..Len(nms) |-> None]])

\* for name, gid in zip(names, group_assignments): row[f"group_{name}"] = gid
RECURSIVE GroupColumns(_, _, _, _)
GroupColumns(row, nms, ga, i) ==
  IF i > Len(nms) THEN row
  ELSE GroupColumns(Put(row, "group_" \o nms[i], ga[i]), nms, ga, i + 1)

\* gid_to_projects: gid -> names of the roots holding it, in zip order
GidToProjects(nms, ga) ==
  [g \in { ga[i][1] : i \in { j \in DOMAIN ga : ga[j] # None } } |->
     LET idx == SelectSeq([i \in 1..Len(nms) |-> i],
                          LAMBDA i : ga[i] # None /\ ga[i][1] = g)
     IN  [k \in 1..Len(idx) |-> nms[idx[k]]]]

\* the group_summary string
GroupSummary(g2p, ord) ==
  LET gids == SortedInts(DOMAIN g2p)
  IN  Join([k \in 1..Len(gids) |->
              "G" \o ToString(gids[k]) \o ":"
                  \o Join(SortedByOrder(g2p[gids[k]], ord), ",")], ";")

\* one iteration of "for key in sorted(all_keys)": the row of that key
RowFor(key, nms, idxs, ord) ==
  LET g   == Grouping(key, nms, idxs)
      r1  == Put(g.row, "status", decide_status(g.exists_flags, nms))
      r2  == GroupColumns(r1, nms, g.group_assignments, 1)
      g2p == GidToProjects(nms, g.group_assignments)
      r3  == Put(r2, "group_summary", GroupSummary(g2p, ord))
  IN  Put(r3, "num_groups", Cardinality(DOMAIN g2p))

\* scan_project on a root whose files rglob yields in the order of seq
RECURSIVE ScanFrom(_, _)
ScanFrom(inf, seq) ==
  IF seq = <<>> THEN inf ELSE ScanFrom(ScanFile(inf, Head(seq)), Tail(seq))

scan_project(seq) == ScanFrom(EmptyDict, seq)

\* ------------------------------------------------------------ the run
\* a declared root: a directory with any of the short names, or a path that is
\* dropped before short_name is ever applied to it
RootChoices ==
  { [raw |-> r, kind |-> "dir"] : r \in RawNames }
    \cup { [raw |-> "a", kind |-> k] : k \in Kinds \ {"dir"} }

RootSeqs == UNION { [1..n -> RootChoices] : n \in 1..MaxRoots }

Init ==
  /\ unique_paths \in RootSeqs
  /\ pc = "check"
  /\ project_paths = <<>>
  /\ missing = <<>>
  /\ not_dir = <<>>
  /\ names = <<>>
  /\ order = EmptyDict
  /\ index_list = <<>>
  /\ info = EmptyDict
  /\ visited = <<>>
  /\ nfiles = 0
  /\ ndata = 0
  /\ failed_at = None
  /\ keys = <<>>
  /\ rows = <<>>
  /\ csv = None
  /\ fn_in = None
  /\ fn_out = None

Indices(s) == [i \in 1..Len(s) |-> i]

\* "p.exists() and p.is_dir()", with a variant that only asks p.exists()
KeptIfExists(p) == p.kind # "missing"
Kept(p) == p.kind = "dir"

\* main, from the existence check to the 'order' map
CheckRoots ==
  /\ pc = "check"
  /\ missing' = SelectSeq(Indices(unique_paths),
                          LAMBDA i : unique_paths[i].kind = "missing")
  /\ not_dir' = SelectSeq(Indices(unique_paths),
                          LAMBDA i : unique_paths[i].kind = "file")
  /\ project_paths' = SelectSeq(Indices(unique_paths),
                                LAMBDA i : Kept(unique_paths[i]))
  /\ names' = make_unique([k \in 1..Len(project_paths') |->
                             unique_paths[project_paths'[k]].raw])
  /\ order' = OrderOf(names')
  /\ pc' = "scan"
  /\ UNCHANGED << unique_paths, index_list, info, visited, nfiles, ndata,
                  failed_at, keys, rows, csv, fn >>

\* the files a run may visit, all roots together
MaxFiles == MaxSize - Len(unique_paths)

\* a scan_project call is running
Scanning == pc = "scan" /\ Len(index_list) < Len(project_paths)

\* the contents a file met now can have: one met before, or a new one
\* (contents are numbered in the order in which the run first meets them)
DataChoices == 1..(IF ndata < MaxData THEN ndata + 1 ELSE MaxData)

\* rglob yields one more file, whose bytes can be read
ScanVisit ==
  /\ Scanning
  /\ nfiles < MaxFiles
  /\ \E p \in Paths, data \in DataChoices :
       LET f == [rel |-> RelOf(p), name |-> p.name, data |-> data]
       IN  /\ \A v \in Range(visited) : v.rel # f.rel
           /\ info' = ScanFile(info, f)
           /\ visited' = Append(visited, f)
           /\ ndata' = IF data > ndata THEN data ELSE ndata
  /\ nfiles' = nfiles + 1
  /\ UNCHANGED << unique_paths, pc, project_paths, missing, not_dir, names,
                  order, index_list, failed_at, keys, rows, csv, fn >>

\* variants of ScanRaise: the unreadable file is skipped and the scan goes on;
\* the failing root is given up (it keeps what it has) and the next one is scanned
ScanRaiseSkipFile ==
  /\ Scanning
  /\ nfiles < MaxFiles
  /\ \E p \in Paths :
       /\ \A v \in Range(visited) : v.rel # RelOf(p)
       /\ failed_at' = Some([root |-> project_paths[Len(index_list) + 1],
                             name |-> p.name, rel |-> RelOf(p)])
  /\ nfiles' = nfiles + 1
  /\ UNCHANGED << unique_paths, pc, project_paths, missing, not_dir, names, order,
                  index_list, info, visited, ndata, keys, rows, csv, fn >>
ScanRaiseSkipRoot ==
  /\ Scanning
  /\ nfiles < MaxFiles
  /\ \E p \in Paths :
       /\ \A v \in Range(visited) : v.rel # RelOf(p)
       /\ failed_at' = Some([root |-> project_paths[Len(index_list) + 1],
                             name |-> p.name, rel |-> RelOf(p)])
  /\ index_list' = Append(index_list, info)
  /\ info' = EmptyDict
  /\ visited' = <<>>
  /\ nfiles' = nfiles + 1
  /\ UNCHANGED << unique_paths, pc, project_paths, missing, not_dir, names, order,
                  ndata, keys, rows, csv, fn >>

\* rglob yields a file that sha256sum cannot open or read: nothing catches
\* the exception, scan_project's info is lost and main ends
ScanRaise ==
  /\ Scanning
  /\ nfiles < MaxFiles
  /\ \E p \in Paths :
       /\ \A v \in Range(visited) : v.rel # RelOf(p)
       /\ failed_at' = Some([root |-> project_paths[Len(index_list) + 1],
                             name |-> p.name, rel |-> RelOf(p)])
  /\ pc' = "failed"
  /\ info' = EmptyDict
  /\ visited' = <<>>
  /\ nfiles' = nfiles + 1
  /\ UNCHANGED << unique_paths, project_paths, missing, not_dir, names, order,
                  index_list, ndata, keys, rows, csv, fn >>

\* rglob is exhausted: scan_project returns info
ScanReturn ==
  /\ Scanning
  /\ index_list' = Append(index_list, info)
  /\ info' = EmptyDict
  /\ visited' = <<>>
  /\ UNCHANGED << unique_paths, pc, project_paths, missing, not_dir, names,
                  order, nfiles, ndata, failed_at, keys, rows, csv, fn >>

\* the rows of the keys of seq, in that order
RECURSIVE RowsFor(_, _, _, _)
RowsFor(seq, nms, idxs, ord) ==
  IF seq = <<>> THEN <<>>
  ELSE <<RowFor(Head(seq), nms, idxs, ord)>> \o RowsFor(Tail(seq), nms, idxs, ord)

\* every scan_project call has returned: all_keys, the row loop over
\* sorted(all_keys) and pd.DataFrame(rows).to_csv(out_path)
WriteReport ==
  /\ pc = "scan"
  /\ Len(index_list) = Len(project_paths)
  /\ keys' = SortedKeys(UnionKeys(index_list))
  /\ rows' = RowsFor(keys', names, index_list, order)
  /\ csv' = Some(rows')
  /\ pc' = "done"
  /\ UNCHANGED << unique_paths, project_paths, missing, not_dir, names, order,
                  index_list, info, visited, nfiles, ndata, failed_at, fn >>

Next ==
  \/ CheckRoots
  \/ ScanVisit
  \/ ScanRaise
  \/ ScanReturn
  \/ WriteReport

Spec == Init /\ [][Next]_vars

\* ------------------------------------------------ status classification
\* The row loop's classification of one key, given for each root the
\* fingerprint of its entry or None: the inputs are drawn from bounded sets.
ClassifyKey == "foo.py"

StatusInputs ==
  UNION { [nms : { make_unique(raw) : raw \in [1..n -> RawNames] },
           shas : [1..n -> {None} \cup { Some(d) : d \in 1..MaxData }]]
          : n \in 1..MaxRoots }

\* the per-root indices that hold ClassifyKey with those fingerprints
IndicesOf(shas) ==
  [i \in 1..Len(shas) |->
     IF shas[i] = None THEN EmptyDict
     ELSE Put(EmptyDict, ClassifyKey,
              [rel |-> ClassifyKey,
               sha |-> sha256sum([data |-> shas[i][1]]),
               collisions |-> <<>>])]

FlagsOf(shas) == [i \in 1..Len(shas) |-> shas[i] # None]

InitStatus ==
  /\ fn_in \in StatusInputs
  /\ fn_out = None
  /\ unique_paths = <<>>
  /\ pc = "classify"
  /\ project_paths = <<>>
  /\ missing = <<>>
  /\ not_dir = <<>>
  /\ names = <<>>
  /\ order = EmptyDict
  /\ index_list = <<>>
  /\ info = EmptyDict
  /\ visited = <<>>
  /\ nfiles = 0
  /\ ndata = 0
  /\ failed_at = None
  /\ keys = <<>>
  /\ rows = <<>>
  /\ csv = None

\* multi_directories_diff: the row of the key, its status and group count
ClassifyDirectories ==
  /\ pc = "classify"
  /\ fn_out = None
  /\ LET row == RowFor(ClassifyKey, fn_in.nms, IndicesOf(fn_in.shas),
                       OrderOf(fn_in.nms))
     IN  fn_out' = Some([tool |-> "multi_directories",
                         status |-> row["status"],
                         num_groups |-> row["num_groups"],
                         groups |-> Grouping(ClassifyKey, fn_in.nms,
                                             IndicesOf(fn_in.shas)).group_assignments])
  /\ UNCHANGED << run, fn_in >>

\* multi_projects_diff: presence only
ClassifyProjects ==
  /\ pc = "classify"
  /\ fn_out = None
  /\ fn_out' = Some([tool |-> "multi_projects",
                     status |-> decide_status_mp(FlagsOf(fn_in.shas)),
                     num_groups |-> 0,
                     groups |-> <<>>])
  /\ UNCHANGED << run, fn_in >>

NextStatus == ClassifyDirectories \/ ClassifyProjects

SpecStatus == InitStatus /\ [][NextStatus]_vars

\* ============================================================ properties
Keys == Range(KeyOrder)

\* every scan_project call has returned: the row loop can run
RowsReady == pc = "done"

\* the roots (positions in names) whose index holds key
Present(key) == { i \in 1..Len(index_list) : key \in DOMAIN index_list[i] }

\* the fingerprints stored for key
ShasOf(key) == { index_list[i][key].sha : i \in Present(key) }

\* the group ids the grouping loop gives the roots for key
GroupIds(key) == Grouping(key, names, index_list).group_assignments

MinOf(S) == CHOOSE x \in S : \A y \in S : x <= y

\* C1: for every key and every list of roots, two roots that have the key
\* share a group id iff their fingerprints are equal, a root without it has
\* group id None, and num_groups is the number of distinct fingerprints among
\* the roots that have it (0 with none, 1 with one).
C1_GroupsAreFingerprintClasses ==
  (fn_out # None /\ fn_out[1].tool = "multi_directories") =>
    LET idxs == IndicesOf(fn_in.shas)
        ga   == fn_out[1].groups
        P    == { i \in DOMAIN idxs : ClassifyKey \in DOMAIN idxs[i] }
    IN  /\ Len(ga) = Len(fn_in.nms)
        /\ \A i \in DOMAIN idxs :
             /\ i \notin P => ga[i] = None
             /\ i \in P => ga[i] # None /\ Len(ga[i]) = 1 /\ ga[i][1] \in Nat \ {0}
        /\ \A i, j \in P :
             (ga[i] = ga[j]) <=> (idxs[i][ClassifyKey].sha = idxs[j][ClassifyKey].sha)
        /\ fn_out[1].num_groups
             = Cardinality({ idxs[i][ClassifyKey].sha : i \in P })
        /\ P = {} => fn_out[1].num_groups = 0
        /\ Cardinality(P) = 1 => fn_out[1].num_groups = 1

\* three roots: two hold the key with equal bytes, the third lacks it
C1_Witness ==
  /\ fn_out # None
  /\ fn_out[1].tool = "multi_directories"
  /\ Len(fn_in.shas) = 3
  /\ fn_in.shas[1] # None
  /\ fn_in.shas[2] = None
  /\ fn_in.shas[3] = fn_in.shas[1]
  /\ fn_out[1].groups = <<Some(1), None, Some(1)>>

\* C2: for every key the ids in use are exactly 1..k (k the number of
\* distinct fingerprints), the first present root has id 1, and a group has
\* the smaller id iff its earliest member is declared earlier; the counter
\* starts again at 1 for every key.
C2_IdsInFirstSeenOrder ==
  RowsReady =>
    \A key \in Keys :
      LET ga      == GroupIds(key)
          P       == Present(key)
          used    == { ga[i][1] : i \in P }
          Head1(g) == MinOf({ i \in P : ga[i][1] = g })
      IN  /\ used = 1..Cardinality(ShasOf(key))
          /\ P # {} => ga[MinOf(P)] = Some(1)
          /\ \A g, h \in used : (g < h) <=> (Head1(g) < Head1(h))

\* two keys: the first row used ids 1 and 2, the second row starts at 1 again
C2_Witness ==
  /\ pc = "done"
  /\ Len(rows) = 2
  /\ rows[1]["num_groups"] = 2
  /\ rows[2]["num_groups"] = 1
  /\ \E n \in Range(names) : rows[2]["group_" \o n] = Some(1)

\* the roots holding group id g for key, as column names in declaration order
MembersOf(key, g) ==
  LET ga  == GroupIds(key)
      idx == SelectSeq(Indices(names), LAMBDA i : ga[i] = Some(g))
  IN  [k \in 1..Len(idx) |-> names[idx[k]]]

\* 'G<id>:<name>,...' for the ids 1..n in ascending order, joined by ';'
RECURSIVE SummaryUpTo(_, _)
SummaryUpTo(key, n) ==
  IF n = 0 THEN ""
  ELSE LET one == "G" \o ToString(n) \o ":" \o Join(MembersOf(key, n), ",")
       IN  IF n = 1 THEN one ELSE SummaryUpTo(key, n - 1) \o ";" \o one

\* C3: for every key, group_summary lists the groups as 'G<id>:<names>' in
\* ascending id order joined by ';', the members of a group being the column
\* names of exactly the roots holding that id, in root-declaration order; it
\* is empty when no root is present.
C3_SummaryInDeclarationOrder ==
  RowsReady =>
    /\ \A key \in Keys :
         RowFor(key, names, index_list, order)["group_summary"]
           = SummaryUpTo(key, Cardinality(ShasOf(key)))
    /\ \A k \in DOMAIN rows :
         rows[k]["group_summary"]
           = SummaryUpTo(rows[k]["filename"], Cardinality(ShasOf(rows[k]["filename"])))

\* the names at the positions whose flag is set, in position order
RECURSIVE PresentNames(_, _)
PresentNames(flags, nms) ==
  IF flags = <<>> THEN <<>>
  ELSE (IF Head(flags) THEN <<Head(nms)>> ELSE <<>>)
         \o PresentNames(Tail(flags), Tail(nms))

\* the status the presence vector calls for, whatever the contents
StatusOf(flags, nms) ==
  IF \A i \in DOMAIN flags : ~flags[i] THEN "missing_all"
  ELSE IF \A i \in DOMAIN flags : flags[i] THEN "all_exist"
  ELSE Join(PresentNames(flags, nms), "_")

\* C4: the status is 'missing_all' when no root has the key, 'all_exist' when
\* every root has it (also when the key splits into several groups), and
\* otherwise the names of exactly the present roots in declaration order
\* joined by '_' (p1, p2, ... in multi_projects_diff); the contents play no part.
C4_StatusFromPresenceOnly ==
  fn_out # None =>
    LET flags == FlagsOf(fn_in.shas)
        n     == Len(flags)
    IN  fn_out[1].status =
          StatusOf(flags, IF fn_out[1].tool = "multi_directories"
                            THEN fn_in.nms
                            ELSE [i \in 1..n |-> "p" \o ToString(i)])

\* every root has the key, with two different contents, and the row is built
C4_Witness ==
  /\ fn_out # None
  /\ fn_out[1].tool = "multi_directories"
  /\ Len(fn_in.shas) = 3
  /\ fn_out[1].status = "all_exist"
  /\ fn_out[1].num_groups = 2

\* the files visited so far in this scan_project call that are called name
VisitedNamed(name) == SelectSeq(visited, LAMBDA f : f.name = name)

\* C5: while and after scan_project visits the files of a root, for every
\* basename seen, rel and sha are those of the first visited file with that
\* basename, and collisions is empty if one such file was visited and else
\* the paths of all of them in visit order.
C5_FirstFileIsCanonical ==
  pc = "scan" =>
    /\ DOMAIN info = { f.name : f \in Range(visited) }
    /\ \A name \in DOMAIN info :
         LET fs == VisitedNamed(name)
         IN  /\ info[name].rel = fs[1].rel
             /\ info[name].sha = sha256sum(fs[1])
             /\ Len(fs) = 1 => info[name].collisions = <<>>
             /\ Len(fs) >= 2 =>
                  /\ info[name].collisions = [k \in 1..Len(fs) |-> fs[k].rel]
                  /\ Len(info[name].collisions) >= 2
                  /\ info[name].collisions[1] = info[name].rel

\* three files of one basename visited, the first two with different bytes
C5_Witness ==
  /\ pc = "scan"
  /\ \E name \in DOMAIN info :
       /\ Len(info[name].collisions) = 3
       /\ VisitedNamed(name)[1].data # VisitedNamed(name)[2].data

\* the relative paths of Paths in ascending order: one fixed traversal order
RelOrder == <<"bar.py", "x/foo.py", "y/foo.py", "z/foo.py">>

\* the files of S in that order
InRelOrder(S) ==
  LET rels == SelectSeq(RelOrder, LAMBDA r : \E f \in S : f.rel = r)
  IN  [k \in 1..Len(rels) |-> CHOOSE f \in S : f.rel = rels[k]]

\* C6 as stated: whatever the order in which the files were visited, the index
\* is the one the traversal in path order gives.
C6_AnyOrderSameIndex ==
  pc = "scan" => info = scan_project(InRelOrder(Range(visited)))

\* C6 as amended: the keys, the entries of the basenames held by one file,
\* and for a shared basename the set and number of collision paths depend on
\* the set of files only; rel and sha are those of one of the files.
C6_OrderIndependentPart ==
  pc = "scan" =>
    LET S == Range(visited)
    IN  /\ DOMAIN info = { f.name : f \in S }
        /\ \A name \in DOMAIN info :
             LET fs == { f \in S : f.name = name }
             IN  /\ \E f \in fs : info[name].rel = f.rel /\ info[name].sha = sha256sum(f)
                 /\ Cardinality(fs) = 1 => info[name].collisions = <<>>
                 /\ Cardinality(fs) >= 2 =>
                      /\ Range(info[name].collisions) = { f.rel : f \in fs }
                      /\ Len(info[name].collisions) = Cardinality(fs)

\* two files of one basename were visited against the path order
C6_Witness ==
  /\ pc = "scan"
  /\ Len(visited) >= 2
  /\ info # scan_project(InRelOrder(Range(visited)))

\* position of a basename in Python's ascending str order
KeyRank(key) == CHOOSE i \in DOMAIN KeyOrder : KeyOrder[i] = key

\* C7: the report has exactly one row per basename that occurs in at least
\* one indexed root, no other row and no basename twice, in ascending order
\* of the basename; so every row has an exists_ flag that is true and its
\* status is never 'missing_all'.
C7_OneRowPerKeySorted ==
  pc = "done" =>
    /\ { rows[k]["filename"] : k \in DOMAIN rows } = UnionKeys(index_list)
    /\ \A k, m \in DOMAIN rows :
         k < m => KeyRank(rows[k]["filename"]) < KeyRank(rows[m]["filename"])
    /\ \A k \in DOMAIN rows :
         /\ \E n \in Range(names) : rows[k]["exists_" \o n]
         /\ rows[k]["status"] # "missing_all"

\* the declared roots that are directories, and the others
Valid == { i \in DOMAIN unique_paths : unique_paths[i].kind = "dir" }
Invalid == (DOMAIN unique_paths) \ Valid

\* the column names the declared roots would have, were none dropped
DeclaredNames == make_unique([i \in DOMAIN unique_paths |-> unique_paths[i].raw])

ColumnsFor(nms) ==
  {"filename", "status", "group_summary", "num_groups"}
    \cup UNION { { "exists_" \o n, "path_" \o n, "sha_" \o n,
                   "collision_" \o n, "group_" \o n } : n \in Range(nms) }

\* number of directories among the first i declared roots
ValidUpTo(i) == Cardinality({ j \in Valid : j <= i })

C9_ReadErrorEndsRun ==
  /\ failed_at # None =>
       /\ pc = "failed"
       /\ rows = <<>>
       /\ csv = None
       /\ \A k \in 1..Len(index_list) : project_paths[k] # failed_at[1].root
  /\ (pc = "done" \/ rows # <<>> \/ csv # None) => failed_at = None

\* the read error came after another root had been indexed with a file
C9_Witness ==
  /\ failed_at # None
  /\ Len(index_list) >= 1
  /\ DOMAIN index_list[1] # {}

\* position in project_paths of the root whose indexing failed
FailedPos == CHOOSE k \in DOMAIN project_paths : project_paths[k] = failed_at[1].root

\* C10 as stated: when indexing of a root fails, every other valid declared
\* root, those declared after it included, is indexed to completion.
C10_OtherRootsStillIndexed ==
  failed_at # None =>
    \A k \in DOMAIN project_paths : k # FailedPos => k <= Len(index_list)

\* C10 as amended: when indexing of a root fails the run ends: the valid
\* roots declared before it have been indexed to completion, and neither it
\* nor any root declared after it is indexed.
C10_FailureStopsIndexing ==
  failed_at # None =>
    /\ pc = "failed"
    /\ Len(index_list) = FailedPos - 1
    /\ ~ ENABLED Next

\* the first of three valid roots failed
C10_Witness ==
  /\ failed_at # None
  /\ Len(project_paths) = 3
  /\ FailedPos = 1

\* the short names of the kept roots, the argument of make_unique in main
KeptRawNames == [k \in 1..Len(project_paths) |-> unique_paths[project_paths[k]].raw]

\* C11: make_unique makes the column names unique: its output is as long as
\* its input, keeps the first occurrence of each name unchanged and has
\* pairwise distinct elements (also when an input name already ends in _2,
\* _3, ...), so that every root has its own position in the 'order' map.
C11_MakeUniqueIsUnique ==
  pc # "check" =>
    LET raw == KeptRawNames
    IN  /\ Len(names) = Len(raw)
        /\ \A i \in DOMAIN raw :
             (\A j \in 1..(i - 1) : raw[j] # raw[i]) => names[i] = raw[i]
        /\ \A i, j \in DOMAIN names : names[i] = names[j] => i = j
        /\ \A i \in DOMAIN names : order[names[i]] = i

====
